---- MODULE Spec2Model ----
(***************************************************************************)
(* Model of shopify_dlt_pipeline.py: the GDPR redaction ledger and engine  *)
(* (anonymize_customer, reapply_redactions, handle_redaction_webhook) and  *)
(* the two load drivers (load_all_resources,                               *)
(* incremental_load_with_backloading).                                     *)
(*                                                                         *)
(* Cell values are [null, text]: SQL NULL / Python None has null = TRUE;   *)
(* a string is a sequence of tokens, so that concatenation (salt + value)  *)
(* is sequence concatenation and "" is the empty sequence.                 *)
(***************************************************************************)
EXTENDS Integers, Sequences, FiniteSets, TLC

(* ------------------------------ bounds -------------------------------- *)
\* operations (load runs, erasure requests) started in one behaviour
MaxOps == 2
\* last instant of the clock, in half-weeks since 2024-01-01
MaxTime == 3
\* failures the environment injects in one behaviour (a pipeline.run or an
\* UPDATE that raises)
MaxFaults == 1
\* inputs of the window planner when it is checked on its own, in days
MaxFloor == 3
MaxDay == 22
MaxWidth == 8

(* ------------------------------ values -------------------------------- *)
NULL == [null |-> TRUE, text |-> <<>>]
Str(t) == [null |-> FALSE, text |-> t]
S(tok) == Str(<<tok>>)

\* hashlib.sha256(bytes).hexdigest(): a digest is a fresh string that
\* determines its input (collision-free) and differs from it.
sha256(bytes) == <<"sha256(">> \o bytes \o <<")">>

\* (mutant) the digest taken over the value alone
_hash_value_unsalted(value, salt) ==
    Str(sha256(IF value.null THEN <<>> ELSE value.text))

\* `if not value: value = ""`, `if salt: m.update(salt)`: None and "" are
\* both falsy; the digest is taken over salt bytes followed by value bytes.
_hash_value(value, salt) ==
    LET v == IF value.null \/ value.text = <<>> THEN <<>> ELSE value.text
        s == IF salt.null \/ salt.text = <<>> THEN <<>> ELSE salt.text
    IN  Str(sha256(s \o v))

IsDigest(v) ==
    /\ ~v.null
    /\ Len(v.text) >= 2
    /\ v.text[1] = "sha256("
    /\ v.text[Len(v.text)] = ")"

ANON_FIRST == S("Anonymous")
ANON_LAST == S("Customer")
REDACTED == S("REDACTED")

PII_COLUMN_ACTIONS ==
    [c \in {"email", "contact_email", "customer__email"} |-> "hash"] @@
    [c \in {"first_name", "customer__first_name", "customer__last_name",
            "customer__default_address__first_name",
            "customer__default_address__last_name", "last_name", "name"}
        |-> "anon"] @@
    [c \in {"customer__phone", "customer__default_address__address1",
            "customer__default_address__city", "customer__default_address__zip",
            "customer__default_address__phone", "phone", "address1", "address2",
            "default_address__first_name", "default_address__last_name",
            "default_address__address1", "default_address__city",
            "default_address__province", "default_address__country",
            "default_address__zip", "default_address__phone",
            "default_address__name", "default_address__country_code",
            "default_address__country_name", "default_address__default",
            "shipping_address__address1", "shipping_address__phone",
            "shipping_address__zip", "city", "province", "province_code", "zip",
            "postal_code", "country", "country_code", "company", "company_name",
            "notes", "tags"}
        |-> "null"]

\* The dict literal of anonymize_customer as Python evaluates it: the key
\* "orders" occurs twice, the later value replaces the earlier one and the key
\* keeps its first position.
tables_to_update == <<
    <<"customers", "id">>,
    <<"customers__addresses", "customer_id">>,
    <<"orders", "customer__default_address__customer_id">> >>

(* ------------------------- the upstream source ------------------------ *)
Subjects == {"42", "43"}
Orders == {"o1", "o2", "o3"}
NoSalt == NULL
Salts == {NoSalt, S("s1")}
ExplicitSalts == Salts \ {NoSalt}

\* Columns of the destination tables (PRAGMA table_info), lower case.
Cols == [
    customers |-> {"id", "email", "first_name", "last_name", "phone", "state"},
    customers__addresses |-> {"id", "customer_id", "first_name", "name",
                              "address1", "country_code"},
    orders |-> {"id", "customer__id", "customer__default_address__customer_id",
                "email", "contact_email", "customer__email",
                "customer__first_name", "customer__last_name",
                "customer__phone", "shipping_address__address1",
                "total_price"} ]

\* The raw records the source emits, as flattened by the loader.
SrcEmail(c) == IF c = "42" THEN S("a@b.com") ELSE NULL
SrcCustomer(c) == [
    id |-> S(c), email |-> SrcEmail(c), first_name |-> S("Ann"),
    last_name |-> S("Lee"), phone |-> S("555"), state |-> S("enabled") ]
SrcAddress(c) == [
    id |-> S(IF c = "42" THEN "a42" ELSE "a43"), customer_id |-> S(c), first_name |-> S("Ann"),
    name |-> S("Ann Lee"), address1 |-> S("1 Main St"),
    country_code |-> S("GB") ]
OrderCustomer(o) == IF o = "o3" THEN "43" ELSE "42"
OrderEmail(o) == IF o = "o1" THEN S("a@b.com")
                 ELSE IF o = "o2" THEN S("x@y.com") ELSE S("c@d.com")
\* o3's customer has no default address.
OrderDefaultAddressCustomer(o) == IF o = "o3" THEN NULL ELSE S(OrderCustomer(o))
\* updated_at of each order, in half-weeks since 2024-01-01
OrderUpdatedAt(o) == IF o = "o1" THEN 0 ELSE IF o = "o2" THEN 2 ELSE 4
SrcOrder(o) == [
    id |-> S(o), customer__id |-> S(OrderCustomer(o)),
    customer__default_address__customer_id |-> OrderDefaultAddressCustomer(o),
    email |-> OrderEmail(o), contact_email |-> OrderEmail(o),
    customer__email |-> OrderEmail(o), customer__first_name |-> S("Ann"),
    customer__last_name |-> S("Lee"), customer__phone |-> S("555"),
    shipping_address__address1 |-> S("1 Main St"),
    total_price |-> S("9.99") ]

\* merge write disposition: upsert by primary key id
upsert(table, records) ==
    {r \in table : \A n \in records : n.id # r.id} \cup records

(* ------------------------------ state --------------------------------- *)
VARIABLES
    db,          \* the DuckDB file at DB_PATH: table name -> set of rows
    pg,          \* the orders table of the postgres destination (backfill)
    ledgerTable, \* whether shopify_data.redacted_customers exists
    ledger,      \* rows of redacted_customers: [customer_id, redacted_at]
    now,         \* the clock, in half-weeks since 2024-01-01
    anon,        \* per process: the running anonymize_customer call, if any
    load,        \* the load process: position, plan, the ledger rows read
                 \* by reapply_redactions and those still to process
    trace,       \* fetch/write events of the current backfill run
    prevFail,    \* the window whose write failed in the latest backfill run
    outcome,     \* per process: how its latest operation ended
    calls,       \* the subjects an erasure request marked again when they
                 \* were already in the ledger
    ops,         \* operations started so far
    faults,      \* failures injected so far
    planner      \* the window planner run on its own: inputs and result

vars == <<db, pg, ledgerTable, ledger, now, anon, load, trace, prevFail,
          outcome, calls, ops, faults, planner>>

\* the outcomes a store or source call can have: it may raise while the
\* fault budget lasts
Outcomes(results) == IF faults < MaxFaults THEN results ELSE {"ok"}
Fault(result) == faults' = IF result = "ok" THEN faults ELSE faults + 1

Procs == {"loader", "admin"}
NoCall == [cid |-> "", salt |-> NoSalt, step |-> 0]
NoWindow == <<>>
\* one week, in half-weeks
WEEK == 2
\* pendulum.datetime(2024, 1, 1) on the model's clock
MIN_START == 0

(* ------------------------ redaction ledger ---------------------------- *)
\* (mutant) a plain INSERT on a table without the primary key
InsertAlways(rows, customer_id, t) ==
    rows \cup {[customer_id |-> customer_id, redacted_at |-> t]}
\* (mutant) INSERT OR REPLACE: the row is rewritten with a new timestamp
InsertOrReplace(rows, customer_id, t) ==
    {e \in rows : e.customer_id # customer_id}
        \cup {[customer_id |-> customer_id, redacted_at |-> t]}

\* INSERT OR IGNORE INTO redacted_customers (customer_id) VALUES (?), with
\* customer_id PRIMARY KEY and redacted_at DEFAULT CURRENT_TIMESTAMP
InsertOrIgnore(rows, customer_id, t) ==
    IF \E e \in rows : e.customer_id = customer_id
    THEN rows
    ELSE rows \cup {[customer_id |-> customer_id, redacted_at |-> t]}

is_marked(customer_id) == \E e \in ledger : e.customer_id = customer_id
list_marked == {e.customer_id : e \in ledger}

(* ------------------------ redaction engine ---------------------------- *)
\* SELECT email FROM table WHERE id_col = ? LIMIT 1: any matching row's
\* email (no ORDER BY), None when no row matches.
CurrentEmails(table, rows, id_col, customer_id) ==
    LET m == {r \in rows : r[id_col] = S(customer_id)}
    IN  IF "email" \notin Cols[table] \/ m = {}
        THEN {NULL} ELSE {r.email : r \in m}

\* The value a SET clause assigns to pii_col.
SetClause(pii_col, hashed_email) ==
    LET action == PII_COLUMN_ACTIONS[pii_col]
    IN  IF action = "hash" /\ pii_col = "email" THEN hashed_email
        ELSE IF action = "hash" THEN NULL
        ELSE IF action = "null" THEN NULL
        ELSE IF pii_col = "first_name" THEN ANON_FIRST
        ELSE IF pii_col = "last_name" THEN ANON_LAST
        ELSE REDACTED

\* (mutant) the UPDATE without its WHERE clause
UpdateRowsEverywhere(rows, cols, id_col, customer_id, hashed_email) ==
    LET set_cols == cols \cap DOMAIN PII_COLUMN_ACTIONS
    IN  { [c \in cols |-> IF c \in set_cols
                          THEN SetClause(c, hashed_email) ELSE r[c]]
          : r \in rows }

\* UPDATE table SET <set clauses> WHERE id_col = customer_id
UpdateRows(rows, cols, id_col, customer_id, hashed_email) ==
    LET set_cols == cols \cap DOMAIN PII_COLUMN_ACTIONS
    IN  { IF r[id_col] = S(customer_id)
          THEN [c \in cols |-> IF c \in set_cols
                               THEN SetClause(c, hashed_email) ELSE r[c]]
          ELSE r : r \in rows }

\* One iteration of `for table, id_col in tables_to_update.items()`; ok is
\* FALSE when con.execute(UPDATE) raises, which the except clause swallows.
AnonymizeTable(store, k, customer_id, salt, current_email, ok) ==
    LET table == tables_to_update[k][1]
        id_col == tables_to_update[k][2]
        cols == Cols[table]
        hashed_email == IF "email" \in cols /\ PII_COLUMN_ACTIONS["email"] = "hash"
                        THEN _hash_value(current_email, salt) ELSE NULL
    IN  IF cols \cap DOMAIN PII_COLUMN_ACTIONS = {} \/ ~ok
        THEN store
        ELSE [store EXCEPT ![table] =
                UpdateRows(store[table], cols, id_col, customer_id, hashed_email)]

(* --------------------------- window planner --------------------------- *)
Min(a, b) == IF a <= b THEN a ELSE b

\* (mutant) the loop without the `min(..., max_end_date)` clamp
RECURSIVE PlanRangesUnclamped(_, _, _)
PlanRangesUnclamped(current_start_date, max_end_date, width) ==
    IF current_start_date < max_end_date
    THEN <<<<current_start_date, current_start_date + width>>>>
             \o PlanRangesUnclamped(current_start_date + width, max_end_date,
                                    width)
    ELSE <<>>

\* The `while current_start_date < max_end_date` loop that fills `ranges`.
RECURSIVE PlanRanges(_, _, _)
PlanRanges(current_start_date, max_end_date, width) ==
    IF current_start_date < max_end_date
    THEN LET end_date == Min(current_start_date + width, max_end_date)
         IN  <<<<current_start_date, end_date>>>>
                 \o PlanRanges(end_date, max_end_date, width)
    ELSE <<>>

\* shopify_source(start_date, end_date).with_resources("orders"): the orders
\* whose updated_at lies in [start_date, end_date)
FetchOrders(start_date, end_date) ==
    {SrcOrder(o) : o \in {x \in Orders : /\ start_date <= OrderUpdatedAt(x)
                                         /\ OrderUpdatedAt(x) < end_date}}
\* shopify_source(start_date) with no end_date
FetchOrdersFrom(start_date) ==
    {SrcOrder(o) : o \in {x \in Orders : start_date <= OrderUpdatedAt(x)}}

Idle == [pc |-> "idle", redacted_customers |-> {}, todo |-> {},
         ranges |-> <<>>, i |-> 0, ceiling |-> MIN_START]
FetchEvent(start_date, end_date, bounded) ==
    [ev |-> "fetch", start |-> start_date, end |-> end_date, bounded |-> bounded]
WriteEvent(start_date, end_date, bounded) ==
    [ev |-> "write", start |-> start_date, end |-> end_date, bounded |-> bounded]

(* ------------------------------- Init --------------------------------- *)
Init ==
    /\ db = [customers |-> {}, customers__addresses |-> {}, orders |-> {}]
    /\ pg = {}
    /\ ledgerTable = FALSE
    /\ ledger = {}
    /\ now = MIN_START
    /\ anon = [p \in Procs |-> NoCall]
    /\ load = Idle
    /\ trace = <<>>
    /\ prevFail = NoWindow
    /\ outcome = [p \in Procs |-> "none"]
    /\ calls = {}
    /\ ops = 0
    /\ faults = 0
    /\ planner = [floor |-> MIN_START, ceiling |-> MIN_START, width |-> WEEK,
                  ranges |-> <<>>, pc |-> "unused"]

(* ------------------- anonymize_customer, step by step ----------------- *)
\* The first statements of anonymize_customer(c, email_salt = s) in process
\* p: CREATE TABLE IF NOT EXISTS redacted_customers; INSERT OR IGNORE, which
\* reads the clock (CURRENT_TIMESTAMP) only when it inserts a row.
Mark(p, c, s) ==
    /\ \E t \in (IF is_marked(c) THEN {now} ELSE now..MaxTime) :
         /\ now' = t
         /\ ledger' = InsertOrIgnore(ledger, c, t)
    /\ ledgerTable' = TRUE
    /\ calls' = IF p = "admin" /\ is_marked(c) THEN calls \cup {c} ELSE calls
    /\ anon' = [anon EXCEPT ![p] = [cid |-> c, salt |-> s, step |-> 2]]

\* handle_redaction_webhook(customer_id): anonymize_customer with no salt
handle_redaction_webhook(c) ==
    /\ anon["admin"].step = 0
    /\ ops < MaxOps
    /\ ops' = ops + 1
    /\ Mark("admin", c, NoSalt)
    /\ UNCHANGED <<db, pg, load, trace, prevFail, outcome, faults, planner>>

\* a direct call anonymize_customer(customer_id, email_salt = s), s a
\* non-empty salt (without one the call is the webhook's)
anonymize_customer(c, s) ==
    /\ anon["admin"].step = 0
    /\ ops < MaxOps
    /\ ops' = ops + 1
    /\ Mark("admin", c, s)
    /\ UNCHANGED <<db, pg, load, trace, prevFail, outcome, faults, planner>>

\* the k-th table of tables_to_update: SELECT email LIMIT 1, then UPDATE
\* (in try/except); after the last table, con.close() and return.
RedactTable(p) ==
    LET k == anon[p].step - 1
        last == k = Len(tables_to_update)
    IN  /\ anon[p].step >= 2
        /\ \E result \in Outcomes({"ok", "update_error"}) :
           \E e \in CurrentEmails(tables_to_update[k][1],
                                  db[tables_to_update[k][1]],
                                  tables_to_update[k][2], anon[p].cid) :
             /\ db' = AnonymizeTable(db, k, anon[p].cid, anon[p].salt, e,
                                     result = "ok")
             /\ Fault(result)
        /\ anon' = [anon EXCEPT ![p] = IF last THEN NoCall
                                       ELSE [@ EXCEPT !.step = @ + 1]]
        /\ outcome' = IF last /\ p = "admin"
                      THEN [outcome EXCEPT ![p] = "ok"] ELSE outcome
        /\ UNCHANGED <<pg, ledgerTable, ledger, now, load, trace, prevFail,
                       calls, ops, planner>>

(* -------------------------- reapply_redactions ------------------------ *)
\* The table_exists check and SELECT customer_id FROM redacted_customers.
ReapplyRead ==
    /\ load.pc = "reapply"
    /\ IF ~ledgerTable
       THEN /\ load' = Idle
            /\ outcome' = [outcome EXCEPT !["loader"] = "DONE"]
       ELSE /\ load' = [load EXCEPT !.pc = "reapply_loop",
                                    !.redacted_customers = list_marked,
                                    !.todo = list_marked]
            /\ UNCHANGED outcome
    /\ UNCHANGED <<db, pg, ledgerTable, ledger, now, anon, trace, prevFail,
                   calls, ops, faults>>
    /\ UNCHANGED planner

\* `for (customer_id,) in redacted_customers: anonymize_customer(customer_id,
\* db_path, schema)`: no salt is passed; the rows come in no stated order.
ReapplyNext ==
    /\ load.pc = "reapply_loop"
    /\ anon["loader"].step = 0
    /\ IF load.todo = {}
       THEN /\ load' = Idle
            /\ outcome' = [outcome EXCEPT !["loader"] = "DONE"]
            /\ UNCHANGED <<anon, now, ledger, ledgerTable, calls>>
       ELSE /\ \E c \in load.todo :
                 /\ load' = [load EXCEPT !.todo = @ \ {c}]
                 /\ Mark("loader", c, NoSalt)
            /\ UNCHANGED outcome
    /\ UNCHANGED <<db, pg, trace, prevFail, ops, faults, planner>>

(* -------------------------- load_all_resources ------------------------ *)
\* (mutant) the load without its reapply_redactions() call
load_all_resources_no_reapply ==
    /\ load.pc = "idle"
    /\ ops < MaxOps
    /\ ops' = ops + 1
    /\ \E result \in Outcomes({"ok", "run_error"}) :
         /\ Fault(result)
         /\ IF result = "ok"
            THEN /\ \E resources \in SUBSET {"orders", "customers"} :
                      LET cs == IF "customers" \in resources THEN Subjects ELSE {}
                          os == IF "orders" \in resources THEN Orders ELSE {}
                      IN
                      db' = [customers |->
                                upsert(db.customers, {SrcCustomer(c) : c \in cs}),
                             customers__addresses |->
                                upsert(db.customers__addresses,
                                       {SrcAddress(c) : c \in cs}),
                             orders |-> upsert(db.orders, {SrcOrder(o) : o \in os})]
                 /\ outcome' = [outcome EXCEPT !["loader"] = "DONE"]
            ELSE /\ UNCHANGED db
                 /\ outcome' = [outcome EXCEPT !["loader"] = "FAILED"]
    /\ UNCHANGED <<pg, ledgerTable, ledger, now, anon, load, trace, prevFail,
                   calls>>
    /\ UNCHANGED planner

\* pipeline.run(shopify_source(start_date).with_resources(*resources)) into
\* the duckdb destination: the records of the requested resources are
\* merged raw; when it raises, reapply_redactions is not reached.
load_all_resources ==
    /\ load.pc = "idle"
    /\ ops < MaxOps
    /\ ops' = ops + 1
    /\ \E result \in Outcomes({"ok", "run_error"}) :
         /\ Fault(result)
         /\ IF result = "ok"
            THEN /\ \E resources \in SUBSET {"orders", "customers"} :
                      LET cs == IF "customers" \in resources THEN Subjects ELSE {}
                          os == IF "orders" \in resources THEN Orders ELSE {}
                      IN
                      db' = [customers |->
                                upsert(db.customers, {SrcCustomer(c) : c \in cs}),
                             customers__addresses |->
                                upsert(db.customers__addresses,
                                       {SrcAddress(c) : c \in cs}),
                             orders |-> upsert(db.orders, {SrcOrder(o) : o \in os})]
                 /\ load' = [Idle EXCEPT !.pc = "reapply"]
                 /\ UNCHANGED outcome
            ELSE /\ UNCHANGED <<db, load>>
                 /\ outcome' = [outcome EXCEPT !["loader"] = "FAILED"]
    /\ UNCHANGED <<pg, ledgerTable, ledger, now, anon, trace, prevFail, calls>>
    /\ UNCHANGED planner

(* -------------------- incremental_load_with_backloading --------------- *)
\* (mutant) planning that resumes at the window whose write failed
StartBackfillResuming ==
    /\ load.pc = "idle"
    /\ ops < MaxOps
    /\ ops' = ops + 1
    /\ \E t \in now..MaxTime :
         /\ now' = t
         /\ load' = [Idle EXCEPT !.pc = "bf_fetch",
                                  !.ranges = PlanRanges(
                                      IF prevFail = NoWindow THEN MIN_START
                                      ELSE prevFail[1], t, WEEK),
                                  !.i = 1, !.ceiling = t]
    /\ trace' = <<>>
    /\ UNCHANGED <<db, pg, ledgerTable, ledger, anon, prevFail, outcome, calls,
                   faults>>
    /\ UNCHANGED planner

\* max_end_date = pendulum.now() and the planning loop
StartBackfill ==
    /\ load.pc = "idle"
    /\ ops < MaxOps
    /\ ops' = ops + 1
    /\ \E t \in now..MaxTime :
         /\ now' = t
         /\ load' = [Idle EXCEPT !.pc = "bf_fetch",
                                  !.ranges = PlanRanges(MIN_START, t, WEEK),
                                  !.i = 1, !.ceiling = t]
    /\ trace' = <<>>
    /\ UNCHANGED <<db, pg, ledgerTable, ledger, anon, prevFail, outcome, calls,
                   faults>>
    /\ UNCHANGED planner

\* (mutant) the next range is fetched while the previous write is pending
BfFetchAhead ==
    /\ load.pc \in {"bf_fetch", "bf_write"}
    /\ load.i <= Len(load.ranges)
    /\ trace' = Append(trace, FetchEvent(load.ranges[load.i][1],
                                         load.ranges[load.i][2], TRUE))
    /\ load' = [load EXCEPT !.pc = "bf_write"]
    /\ UNCHANGED <<db, pg, ledgerTable, ledger, now, anon, prevFail, outcome,
                   calls, ops, faults>>
    /\ UNCHANGED planner

\* pipeline.run(data) for the next planned range begins: the fetch is issued
BfFetch ==
    /\ load.pc = "bf_fetch"
    /\ load.i <= Len(load.ranges)
    /\ trace' = Append(trace, FetchEvent(load.ranges[load.i][1],
                                         load.ranges[load.i][2], TRUE))
    /\ load' = [load EXCEPT !.pc = "bf_write"]
    /\ UNCHANGED <<db, pg, ledgerTable, ledger, now, anon, prevFail, outcome,
                   calls, ops, faults>>
    /\ UNCHANGED planner

\* (mutant) a failed chunk is logged and the loop goes on to the next range
BfWriteSkipping ==
    /\ load.pc = "bf_write"
    /\ \E result \in Outcomes({"ok", "fetch_error", "write_error"}) :
         /\ Fault(result)
         /\ IF result = "ok"
            THEN /\ pg' = upsert(pg, FetchOrders(load.ranges[load.i][1],
                                                 load.ranges[load.i][2]))
                 /\ trace' = Append(trace, WriteEvent(load.ranges[load.i][1],
                                                      load.ranges[load.i][2], TRUE))
            ELSE UNCHANGED <<pg, trace>>
    /\ load' = [load EXCEPT !.pc = "bf_fetch", !.i = @ + 1]
    /\ UNCHANGED <<prevFail, outcome>>
    /\ UNCHANGED <<db, ledgerTable, ledger, now, anon, calls, ops>>
    /\ UNCHANGED planner

\* pipeline.run(data) returns after the write, or raises and ends the run
BfWrite ==
    /\ load.pc = "bf_write"
    /\ \E result \in Outcomes({"ok", "fetch_error", "write_error"}) :
         /\ Fault(result)
         /\ IF result = "ok"
            THEN /\ pg' = upsert(pg, FetchOrders(load.ranges[load.i][1],
                                                 load.ranges[load.i][2]))
                 /\ trace' = Append(trace, WriteEvent(load.ranges[load.i][1],
                                                      load.ranges[load.i][2], TRUE))
                 /\ load' = [load EXCEPT !.pc = "bf_fetch", !.i = @ + 1]
                 /\ UNCHANGED <<prevFail, outcome>>
            ELSE /\ load' = Idle
                 /\ prevFail' = IF result = "write_error"
                                THEN load.ranges[load.i] ELSE NoWindow
                 /\ outcome' = [outcome EXCEPT !["loader"] = "FAILED"]
                 /\ UNCHANGED <<pg, trace>>
    /\ UNCHANGED <<db, ledgerTable, ledger, now, anon, calls, ops>>
    /\ UNCHANGED planner

\* (mutant) the catch-up fetch issued while the last range is outstanding
BfCatchupFetchEarly ==
    /\ load.pc = "bf_fetch"
    /\ load.i >= Len(load.ranges)
    /\ trace' = Append(trace, FetchEvent(load.ceiling, load.ceiling, FALSE))
    /\ load' = [load EXCEPT !.pc = "bf_catchup_write"]
    /\ UNCHANGED <<db, pg, ledgerTable, ledger, now, anon, prevFail, outcome,
                   calls, ops, faults>>
    /\ UNCHANGED planner

\* the final pipeline.run(shopify_source(start_date = max_end_date)) begins
BfCatchupFetch ==
    /\ load.pc = "bf_fetch"
    /\ load.i > Len(load.ranges)
    /\ trace' = Append(trace, FetchEvent(load.ceiling, load.ceiling, FALSE))
    /\ load' = [load EXCEPT !.pc = "bf_catchup_write"]
    /\ UNCHANGED <<db, pg, ledgerTable, ledger, now, anon, prevFail, outcome,
                   calls, ops, faults>>
    /\ UNCHANGED planner

\* the final pipeline.run returns, then reapply_redactions() is called
BfCatchupWrite ==
    /\ load.pc = "bf_catchup_write"
    /\ \E result \in Outcomes({"ok", "run_error"}) :
         /\ Fault(result)
         /\ IF result = "ok"
            THEN /\ pg' = upsert(pg, FetchOrdersFrom(load.ceiling))
                 /\ trace' = Append(trace,
                                    WriteEvent(load.ceiling, load.ceiling, FALSE))
                 /\ load' = [load EXCEPT !.pc = "reapply"]
                 /\ prevFail' = NoWindow
                 /\ UNCHANGED outcome
            ELSE /\ load' = Idle
                 /\ prevFail' = NoWindow
                 /\ outcome' = [outcome EXCEPT !["loader"] = "FAILED"]
                 /\ UNCHANGED <<pg, trace>>
    /\ UNCHANGED <<db, ledgerTable, ledger, now, anon, calls, ops>>
    /\ UNCHANGED planner

(* ------------------------------ behaviour ----------------------------- *)
Next ==
    \/ \E c \in Subjects : handle_redaction_webhook(c)
    \/ \E c \in Subjects, s \in ExplicitSalts : anonymize_customer(c, s)
    \/ \E p \in Procs : RedactTable(p)
    \/ load_all_resources
    \/ ReapplyRead
    \/ ReapplyNext
    \/ StartBackfill
    \/ BfFetch
    \/ BfWrite
    \/ BfCatchupFetch
    \/ BfCatchupWrite

Spec == Init /\ [][Next]_vars

\* The statements of a load run follow one another in one thread: when the
\* call a run is waiting on returns (pipeline.run, con.execute), the run
\* takes its next step.
LoaderStep ==
    \/ BfFetch
    \/ BfWrite
    \/ BfCatchupFetch
    \/ BfCatchupWrite
    \/ ReapplyRead
    \/ ReapplyNext
    \/ RedactTable("loader")

\* The backfill driver on its own store, with erasure requests arriving at
\* any moment of a run.
BackfillNext ==
    \/ \E c \in Subjects : handle_redaction_webhook(c)
    \/ \E c \in Subjects, s \in ExplicitSalts : anonymize_customer(c, s)
    \/ \E p \in Procs : RedactTable(p)
    \/ StartBackfill
    \/ BfFetch
    \/ BfWrite
    \/ BfCatchupFetch
    \/ BfCatchupWrite
    \/ ReapplyRead
    \/ ReapplyNext

SpecBackfill == Init /\ [][BackfillNext]_vars /\ WF_vars(LoaderStep)

(* ------------------- the window planner on its own -------------------- *)
\* The planning loop of incremental_load_with_backloading applied to every
\* floor, ceiling and width of the bounded input space.
PlanInit ==
    /\ db = [customers |-> {}, customers__addresses |-> {}, orders |-> {}]
    /\ pg = {}
    /\ ledgerTable = FALSE
    /\ ledger = {}
    /\ now = MIN_START
    /\ anon = [p \in Procs |-> NoCall]
    /\ load = Idle
    /\ trace = <<>>
    /\ prevFail = NoWindow
    /\ outcome = [p \in Procs |-> "none"]
    /\ calls = {}
    /\ ops = 0
    /\ faults = 0
    /\ \E f \in 0..MaxFloor, c \in 0..MaxDay, w \in 1..MaxWidth :
         planner = [floor |-> f, ceiling |-> c, width |-> w, ranges |-> <<>>,
                    pc |-> "ready"]

PlanWindows ==
    /\ planner.pc = "ready"
    /\ planner' = [planner EXCEPT
                      !.ranges = PlanRanges(planner.floor, planner.ceiling,
                                            planner.width),
                      !.pc = "planned"]
    /\ UNCHANGED <<db, pg, ledgerTable, ledger, now, anon, load, trace,
                   prevFail, outcome, calls, ops, faults>>

PlanNext == PlanWindows

SpecPlan == PlanInit /\ [][PlanNext]_vars

(* ============================== claims ================================ *)
\* The rows of the two stores that belong to subject c, as <<table, row>>.
SubjectRows(d, g, c) ==
    {<<"customers", r>> : r \in {x \in d.customers : x.id = S(c)}}
    \cup {<<"customers__addresses", r>> :
            r \in {x \in d.customers__addresses : x.customer_id = S(c)}}
    \cup {<<"orders", r>> :
            r \in {x \in d.orders :
                     \/ x.customer__id = S(c)
                     \/ x.customer__default_address__customer_id = S(c)}}
    \cup {<<"postgres.orders", r>> :
            r \in {x \in g :
                     \/ x.customer__id = S(c)
                     \/ x.customer__default_address__customer_id = S(c)}}

\* A value as the source emitted it: neither NULL, a digest nor a sentinel.
RawValue(v) == ~v.null /\ ~IsDigest(v) /\ v \notin {ANON_FIRST, ANON_LAST, REDACTED}
HoldsRawPII(r) ==
    \E col \in DOMAIN r \cap DOMAIN PII_COLUMN_ACTIONS : RawValue(r[col])

\* C1: no step writes a row with raw PII for a subject that is already in the
\* ledger: a record of a marked subject is redacted before it is written, on
\* first write and on every re-load.
C1_MarkedSubjectWrittenRedacted ==
    [][\A c \in Subjects :
          is_marked(c) =>
             \A tr \in SubjectRows(db', pg', c) \ SubjectRows(db, pg, c) :
                ~HoldsRawPII(tr[2])]_vars

\* C2: in every reachable store, for every table, marked subject and salt, applying
\* the redaction a second time with the same salt leaves the table as the
\* first application left it.
C2_RedactionIdempotent ==
    \A k \in 1..Len(tables_to_update), c \in list_marked, s \in Salts :
       LET table == tables_to_update[k][1]
           id_col == tables_to_update[k][2]
       IN  \A e1 \in CurrentEmails(table, db[table], id_col, c) :
              LET once == AnonymizeTable(db, k, c, s, e1, TRUE)
              IN  \A e2 \in CurrentEmails(table, once[table], id_col, c) :
                     AnonymizeTable(once, k, c, s, e2, TRUE) = once

\* C3: for floor < ceiling the planned windows start at floor, end at
\* ceiling, are contiguous with strictly increasing starts, and none is wider
\* than width; floor = 0, ceiling = 21, width = 7 (days) gives three 7-day
\* windows.
C3_WindowsPartitionRange ==
    LET r == planner.ranges
        n == Len(r)
    IN  (planner.pc = "planned" /\ planner.floor < planner.ceiling) =>
           /\ n >= 1
           /\ r[1][1] = planner.floor
           /\ r[n][2] = planner.ceiling
           /\ \A j \in 1..n : /\ r[j][1] < r[j][2]
                              /\ r[j][2] - r[j][1] <= planner.width
           /\ \A j \in 1..(n - 1) : /\ r[j + 1][1] = r[j][2]
                                    /\ r[j][1] < r[j + 1][1]
           /\ (planner.floor = 0 /\ planner.ceiling = 21 /\ planner.width = 7)
                 => r = << <<0, 7>>, <<7, 14>>, <<14, 21>> >>

C3_Witness ==
    /\ planner.pc = "planned"
    /\ planner.floor = 0 /\ planner.ceiling = 21 /\ planner.width = 7
    /\ Len(planner.ranges) = 3

InBackfill == load.pc \in {"bf_fetch", "bf_write", "bf_catchup_write"}

C5_MarkIdempotent ==
    [][/\ \A e1, e2 \in ledger' :
             e1.customer_id = e2.customer_id => e1 = e2
       /\ \A p \in Procs :
             (anon[p].step = 0 /\ anon'[p].step = 2) =>
                /\ Cardinality({e \in ledger' :
                                  e.customer_id = anon'[p].cid}) = 1
                /\ is_marked(anon'[p].cid) => ledger' = ledger]_vars

C5_Witness ==
    \E c \in calls :
       /\ is_marked(c)
       /\ anon["admin"].step = 0
       /\ outcome["admin"] = "ok"

\* C6: no step removes or rewrites a ledger entry, and the ledger table,
\* once created, stays.
C6_LedgerDurable ==
    [][/\ \A e \in ledger : e \in ledger'
       /\ ledgerTable => ledgerTable']_vars

C6_Witness ==
    /\ load.pc = "reapply_loop"
    /\ load.redacted_customers # {}
    /\ load.todo = {}
    /\ anon["loader"].step = 0
    /\ \A c \in load.redacted_customers : is_marked(c)
    /\ db.customers # {}

\* C7: when the reapply pass of a run completes (no statement having
\* failed), every row of the DuckDB store that belongs to a subject the pass
\* read from the ledger holds no raw PII.
C7_ReapplyRedactsEveryRow ==
    [][(load.pc = "reapply_loop" /\ load'.pc = "idle" /\ faults' = 0) =>
          \A c \in load.redacted_customers :
             \A tr \in SubjectRows(db', {}, c) : ~HoldsRawPII(tr[2])]_vars

SaltText(salt) == IF salt.null THEN <<>> ELSE salt.text
ValueText(v) == IF v.null THEN <<>> ELSE v.text
\* process p's UPDATE of the k-th table has just succeeded
Updated(p, k) ==
    /\ anon[p].step = k + 1
    /\ anon'[p].step = (IF k = Len(tables_to_update) THEN 0 ELSE k + 2)
    /\ faults' = faults

\* C8: a successful redaction with salt s leaves, in every row of the
\* subject, each column that is not in the action table (id, state, ...) as
\* it was and sets a first_name column to the first-name sentinel; in the
\* customers table it replaces the email of the subject's row by the SHA-256
\* digest of s followed by the prior email.
C8_RedactsCustomerRecord ==
    [][\A p \in Procs, k \in 1..Len(tables_to_update) :
          Updated(p, k) =>
             LET table == tables_to_update[k][1]
                 id_col == tables_to_update[k][2]
             IN  \A r \in db[table] :
                    r[id_col] = S(anon[p].cid) =>
                       \E r2 \in db'[table] :
                          /\ r2.id = r.id
                          /\ \A col \in Cols[table] \ DOMAIN PII_COLUMN_ACTIONS :
                                r2[col] = r[col]
                          /\ "first_name" \in Cols[table]
                                => r2.first_name = ANON_FIRST
                          /\ table = "customers" =>
                                r2.email = Str(sha256(SaltText(anon[p].salt)
                                                         \o ValueText(r.email)))]_vars

C8_Witness ==
    \E r \in db.customers :
       /\ r.id = S("42")
       /\ r.email = Str(sha256(<<"s1", "a@b.com">>))
       /\ r.first_name = ANON_FIRST
       /\ r.state = S("enabled")
       /\ is_marked("42")

\* C9: the events of a backfill run alternate fetch, write, fetch, ...; each
\* write is of the window just fetched, and each fetch after the first
\* starts at or after the end of the window written before it: windows are
\* processed in increasing order, one at a time.
C9_ChunksSequentialInOrder ==
    \A j \in 1..Len(trace) :
       /\ (j % 2 = 1) => trace[j].ev = "fetch"
       /\ (j % 2 = 0) =>
             /\ trace[j].ev = "write"
             /\ trace[j].start = trace[j - 1].start
             /\ trace[j].end = trace[j - 1].end
             /\ trace[j].bounded = trace[j - 1].bounded
       /\ (j % 2 = 1 /\ j >= 3) =>
             /\ trace[j - 2].bounded
             /\ trace[j - 2].start < trace[j - 2].end
             /\ trace[j].start = trace[j - 2].end

C9_Witness ==
    /\ Len(trace) >= 5
    /\ trace[5].ev = "fetch"
    /\ ~trace[5].bounded

HashColumns == {c \in DOMAIN PII_COLUMN_ACTIONS : PII_COLUMN_ACTIONS[c] = "hash"}

\* C10: a successful redaction of the orders table replaces every HASH
\* column (email, contact_email, customer__email) of each of the subject's
\* rows by the digest of the salt followed by that column's prior value.
C10_HashColumnsHashed ==
    [][\A p \in Procs :
          Updated(p, 3) =>
             \A r \in db.orders :
                r[tables_to_update[3][2]] = S(anon[p].cid) =>
                   \E r2 \in db'.orders :
                      /\ r2.id = r.id
                      /\ \A col \in HashColumns \cap Cols.orders :
                            r2[col] = Str(sha256(SaltText(anon[p].salt)
                                                    \o ValueText(r[col])))]_vars

AnonColumns == {c \in DOMAIN PII_COLUMN_ACTIONS : PII_COLUMN_ACTIONS[c] = "anon"}
\* the anon paths that end in first_name, and those that end in last_name
FirstNameLike == {"first_name", "customer__first_name",
                  "customer__default_address__first_name"}
LastNameLike == {"last_name", "customer__last_name",
                 "customer__default_address__last_name"}
NameSentinel(col) == IF col \in FirstNameLike THEN ANON_FIRST
                     ELSE IF col \in LastNameLike THEN ANON_LAST
                     ELSE REDACTED

\* C11: a successful redaction sets every anon column of each of the
\* subject's rows to "Anonymous" when its path ends in first_name, to
\* "Customer" when it ends in last_name, and to "REDACTED" otherwise.
C11_NameSentinelBySuffix ==
    [][\A p \in Procs, k \in 1..Len(tables_to_update) :
          Updated(p, k) =>
             LET table == tables_to_update[k][1]
                 id_col == tables_to_update[k][2]
             IN  \A r \in db[table] :
                    r[id_col] = S(anon[p].cid) =>
                       \E r2 \in db'[table] :
                          /\ r2.id = r.id
                          /\ \A col \in AnonColumns \cap Cols[table] :
                                r2[col] = NameSentinel(col)]_vars

\* C12: when the pipeline.run of a chunk raises during a backfill run, the
\* run ends there in FAILED: the step writes nothing, the events of the run
\* stop at the fetch of that chunk (chunks before it fetched and written,
\* none after it), the store keeps what the earlier chunks wrote, and no
\* fetch or write is issued until another run starts.
C12_FailedChunkAbortsRun ==
    [][/\ (InBackfill /\ load' # load /\ faults' = faults + 1) =>
             /\ load'.pc = "idle"
             /\ outcome'["loader"] = "FAILED"
             /\ pg' = pg /\ db' = db /\ trace' = trace
             /\ load.pc = "bf_write" =>
                   /\ Len(trace) = 2 * load.i - 1
                   /\ trace[Len(trace)] = FetchEvent(load.ranges[load.i][1],
                                                     load.ranges[load.i][2], TRUE)
                   /\ \A j \in 1..(load.i - 1) :
                         /\ trace[2 * j] = WriteEvent(load.ranges[j][1],
                                                      load.ranges[j][2], TRUE)
                         /\ FetchOrders(load.ranges[j][1], load.ranges[j][2])
                               \subseteq pg'
       /\ (~InBackfill /\ trace' # trace) =>
             (load.pc = "idle" /\ load'.pc = "bf_fetch" /\ trace' = <<>>)]_vars

C12_Witness ==
    /\ load.pc = "idle"
    /\ outcome["loader"] = "FAILED"
    /\ Len(trace) = 3
    /\ trace[3].ev = "fetch" /\ trace[3].bounded
    /\ FetchOrders(trace[1].start, trace[1].end) # {}
    /\ FetchOrders(trace[1].start, trace[1].end) \subseteq pg

\* the steps load.pc can take from one position of a run to the next
RunOrder == {
    <<"idle", "bf_fetch">>, <<"idle", "reapply">>,
    <<"bf_fetch", "bf_write">>, <<"bf_write", "bf_fetch">>,
    <<"bf_write", "idle">>, <<"bf_fetch", "bf_catchup_write">>,
    <<"bf_catchup_write", "reapply">>, <<"bf_catchup_write", "idle">>,
    <<"reapply", "reapply_loop">>, <<"reapply", "idle">>,
    <<"reapply_loop", "idle">> }

\* C13: a backfill run goes planning, (fetch, write) per planned window,
\* catch-up fetch and write, reapply, DONE: when the catch-up write returns
\* the events of the run are the fetch and write of each planned window in
\* order followed by one unbounded fetch and write from the planning-time
\* ceiling (alone when the plan is empty); the catch-up fetch is issued only
\* when every planned window is written; the ledger is read once and each
\* subject read is re-applied once, between the catch-up write and DONE; a
\* run leaves the load steps only in FAILED and the reapply pass only in
\* DONE; and every run that has started ends, in DONE or FAILED.
C13_BackfillRunOrder ==
    /\ [][/\ load'.pc # load.pc => <<load.pc, load'.pc>> \in RunOrder
          /\ (load.pc = "bf_catchup_write" /\ load'.pc = "reapply") =>
                LET n == Len(load.ranges)
                IN  /\ load'.ranges = load.ranges /\ load'.ceiling = load.ceiling
                    /\ Len(trace') = 2 * n + 2
                    /\ \A j \in 1..n :
                          /\ trace'[2 * j - 1] = FetchEvent(load.ranges[j][1],
                                                            load.ranges[j][2], TRUE)
                          /\ trace'[2 * j] = WriteEvent(load.ranges[j][1],
                                                        load.ranges[j][2], TRUE)
                    /\ trace'[2 * n + 1] =
                          FetchEvent(load.ceiling, load.ceiling, FALSE)
                    /\ trace'[2 * n + 2] =
                          WriteEvent(load.ceiling, load.ceiling, FALSE)
                    /\ n = 0 <=> load.ceiling <= MIN_START
                    /\ n > 0 => load.ranges[n][2] = load.ceiling
          /\ (Len(trace') = Len(trace) + 1 /\ trace'[Len(trace')].ev = "fetch"
                /\ ~trace'[Len(trace')].bounded) =>
                /\ Len(trace) = 2 * Len(load.ranges)
                /\ \A j \in 1..Len(trace) : trace[j].bounded
                /\ trace'[Len(trace')].start = load.ceiling
          /\ (load.pc = "reapply_loop" /\ anon["loader"].step = 0
                /\ anon'["loader"].step # 0) =>
                /\ anon'["loader"].cid \in load.todo
                /\ load'.todo = load.todo \ {anon'["loader"].cid}
          /\ (load.pc = "reapply" /\ load'.pc = "reapply_loop") =>
                /\ load'.todo = list_marked
                /\ load'.redacted_customers = list_marked
          /\ (InBackfill /\ load'.pc = "idle") => outcome'["loader"] = "FAILED"
          /\ (load.pc \in {"reapply", "reapply_loop"} /\ load'.pc = "idle") =>
                /\ outcome'["loader"] = "DONE"
                /\ load.todo = {} /\ anon["loader"].step = 0]_vars
    /\ (load.pc # "idle") ~>
          (load.pc = "idle" /\ outcome["loader"] \in {"DONE", "FAILED"})

C13_Witness ==
    /\ load.pc = "idle"
    /\ outcome["loader"] = "DONE"
    /\ Len(trace) = 6
    /\ trace[5] = FetchEvent(trace[4].end, trace[4].end, FALSE)
    /\ trace[6].ev = "write"
    /\ ledgerTable

\* process p's UPDATE of a table has just raised
UpdateFailed(p) ==
    /\ anon[p].step >= 2
    /\ anon'[p] # anon[p]
    /\ faults' = faults + 1

\* C14: a redaction UPDATE that fails ends the operation with an error: the
\* anonymize_customer call stops there, an erasure request does not report
\* success, and a load run whose reapply pass made the call ends in FAILED,
\* not in DONE.
C14_StoreFailureIsFatal ==
    [][\A p \in Procs :
          UpdateFailed(p) =>
             /\ anon'[p].step = 0
             /\ outcome'[p] \in {"FAILED", "error"}
             /\ p = "loader" => load'.pc = "idle"]_vars

\* the salt a digest was taken under and the value that was hashed, read
\* back from the digest term
DigestSalt(v) ==
    IF \E s \in ExplicitSalts : v.text[2] = s.text[1] THEN <<v.text[2]>> ELSE <<>>
DigestPayload(v) ==
    Str(SubSeq(v.text, 2 + Len(DigestSalt(v)), Len(v.text) - 1))

\* C15: every pass over a subject uses one salt: no stored email is the
\* digest under one salt of a value that is itself a digest under another.
C15_SaltConstant ==
    \A table \in {"customers", "orders"} :
       \A r \in db[table] :
          (IsDigest(r.email) /\ IsDigest(DigestPayload(r.email))) =>
             DigestSalt(r.email) = DigestSalt(DigestPayload(r.email))

\* C16: a call anonymize_customer(c) adds at most the ledger entry of c and
\* writes no table row when it marks; each of its UPDATEs leaves the ledger,
\* the other tables and the other store as they were, adds and removes no
\* row, leaves every row whose id column is not c as it was, and leaves the
\* columns outside the action table of c's rows as they were.
C16_ErasureLimitedToSubject ==
    [][\A p \in Procs :
          /\ (anon[p].step = 0 /\ anon'[p].step = 2) =>
                /\ db' = db /\ pg' = pg
                /\ ledger \subseteq ledger'
                /\ \A e \in ledger' \ ledger : e.customer_id = anon'[p].cid
          /\ (anon[p].step >= 2 /\ anon'[p] # anon[p]) =>
                LET table == tables_to_update[anon[p].step - 1][1]
                    id_col == tables_to_update[anon[p].step - 1][2]
                IN  /\ ledger' = ledger /\ pg' = pg
                    /\ \A t \in DOMAIN db \ {table} : db'[t] = db[t]
                    /\ {r.id : r \in db'[table]} = {r.id : r \in db[table]}
                    /\ Cardinality(db'[table]) = Cardinality(db[table])
                    /\ \A r \in db[table] :
                          IF r[id_col] # S(anon[p].cid)
                          THEN r \in db'[table]
                          ELSE \E r2 \in db'[table] :
                                  /\ r2.id = r.id
                                  /\ \A col \in Cols[table]
                                                \ DOMAIN PII_COLUMN_ACTIONS :
                                        r2[col] = r[col]]_vars

C16_Witness ==
    /\ anon["admin"].step = 0
    /\ outcome["admin"] = "ok"
    /\ faults = 0
    /\ list_marked = {"42"}
    /\ SrcCustomer("43") \in db.customers
    /\ SrcAddress("43") \in db.customers__addresses
    /\ \E r \in db.customers :
          r.id = S("42") /\ IsDigest(r.email) /\ r.state = S("enabled")

\* C17: a successful redaction of a table with an email column replaces
\* the email of each of the subject's rows by the digest of the salt
\* followed by that row's own prior email, so rows of one subject with
\* different emails end with different digests.
C17_EmailDigestPerRow ==
    [][\A p \in Procs, k \in 1..Len(tables_to_update) :
          (Updated(p, k) /\ "email" \in Cols[tables_to_update[k][1]]) =>
             LET table == tables_to_update[k][1]
                 mine == {r \in db[table] :
                            r[tables_to_update[k][2]] = S(anon[p].cid)}
                 after(r) == CHOOSE r2 \in db'[table] : r2.id = r.id
             IN  /\ \A r \in mine :
                       after(r).email = Str(sha256(SaltText(anon[p].salt)
                                                      \o ValueText(r.email)))
                 /\ \A r1, r2 \in mine :
                       r1.email # r2.email => after(r1).email # after(r2).email]_vars

\* C18: whatever the interleaving of erasure requests with load runs, when
\* no call is running any more (the request has returned, the load has
\* finished its reapply pass) and no statement has failed, the customers row
\* of every marked subject holds no raw PII, also when the load wrote the
\* raw record after the request's UPDATE of customers.
C18_ErasureNotLostUnderLoad ==
    (anon["admin"].step = 0 /\ load.pc = "idle" /\ faults = 0) =>
       \A c \in list_marked :
          \A r \in db.customers : r.id = S(c) => ~HoldsRawPII(r)

\* the load wrote between the request's UPDATE of customers and its UPDATE
\* of orders: after both finished, the customers email was hashed once (by
\* the reapply pass) and an orders email twice (by the request, then by the
\* reapply pass)
C18_Witness ==
    /\ anon["admin"].step = 0 /\ outcome["admin"] = "ok"
    /\ load.pc = "idle" /\ outcome["loader"] = "DONE"
    /\ faults = 0
    /\ is_marked("42")
    /\ \E r \in db.customers :
          /\ r.id = S("42")
          /\ r.email = Str(sha256(<<"a@b.com">>))
          /\ ~HoldsRawPII(r)
    /\ \E o \in db.orders :
          /\ o.customer__default_address__customer_id = S("42")
          /\ IsDigest(o.email) /\ IsDigest(DigestPayload(o.email))

====
